---------------------------- MODULE Spec2Model ----------------------------
(***************************************************************************)
(* A model of the web-template single-page application: the counter page   *)
(* (Home), the stand-alone counter component (App), the route table with   *)
(* its lazily imported page, the route error boundary with its two         *)
(* templates, and the documented patterns: the filterByStatus contract,    *)
(* the useFetch, useForm and useAsync hooks, and the backend request path  *)
(* of UserController and GetUserUseCase.                                   *)
(*                                                                         *)
(* A component is modelled by the React element it returns: the template   *)
(* it chose and the sequence of JavaScript values it placed in it.         *)
(***************************************************************************)
EXTENDS Integers, Sequences, FiniteSets, TLC

VARIABLES
    location,     \* the router's current location, a sequence of path segments
    matches,      \* matchRoutes(rootRoutes, location): the matched branch, <<>> for none
    lazyHome,     \* status of lazy(() => import("@/pages/index.tsx"))
    lazyError,    \* the reason the import was rejected with
    routeError,   \* the value useRouteError() returns in the root boundary
    screen,       \* the element shown by the router: [template, children]
    count,        \* useCounterStore().count
    appScreen,    \* the element App returned at its last render
    appCount,     \* useCounter().count of the mounted App
    incs,         \* history: increments of the store since the last reset
    appIncs,      \* history: increments performed through App
    touched,      \* history: an increment or a reset has been performed
    lastEvent,    \* history: the event the last step handled
    lastOps,      \* history: the counter operations the last step called
    fArgs,        \* the arguments of the last filterByStatus call
    fResult,      \* the outcome of the last filterByStatus call
    hMounted,     \* useFetch: the component using the hook has mounted
    hUrl,         \* useFetch: the url of the last render
    hData,        \* useFetch: data
    hError,       \* useFetch: error
    hLoading,     \* useFetch: isLoading
    hReqs,        \* useFetch: the calls of fetchData, in the order they started
    hEvent,       \* useFetch history: what the last step did, and for which call
    gValues,      \* useForm: values
    gErrors,      \* useForm: errors
    gTouched,     \* useForm: touched
    gSubmitting,  \* useForm: isSubmitting
    gCalls,       \* useForm: the calls of onSubmit, in the order they were made
    gEvent,       \* useForm history: what the last step did
    aState,       \* useAsync: the state of a component that calls all four actions
    uState,       \* useAsync: the state of each mounted UserProfile
    uFetch,       \* UserProfile: the fetchUser() promise of each instance
    uScreen,      \* UserProfile: the element each instance returned last
    bReqs         \* backend: the requests handled by UserController.getUser

appVars == <<location, matches, lazyHome, lazyError, routeError, screen,
             count, appScreen, appCount, incs, appIncs, touched, lastEvent,
             lastOps>>
filterVars == <<fArgs, fResult>>
fetchVars == <<hMounted, hUrl, hData, hError, hLoading, hReqs, hEvent>>
formVars == <<gValues, gErrors, gTouched, gSubmitting, gCalls, gEvent>>
asyncVars == <<aState, uState, uFetch, uScreen>>
backendVars == <<bReqs>>
docVars == <<filterVars, fetchVars, formVars, asyncVars, backendVars>>
vars == <<location, matches, lazyHome, lazyError, routeError, screen,
          count, appScreen, appCount, incs, appIncs, touched, lastEvent,
          lastOps, fArgs, fResult,
          hMounted, hUrl, hData, hError, hLoading, hReqs, hEvent,
          gValues, gErrors, gTouched, gSubmitting, gCalls, gEvent,
          aState, uState, uFetch, uScreen, bReqs>>

---------------------------------------------------------------------------
(* Bounds of the model.                                                    *)

MaxCount == 3
MaxApps == 3

---------------------------------------------------------------------------
(* JavaScript values.                                                      *)

JSUndefined == [t |-> "undefined"]
JSNull == [t |-> "null"]
JSStr(s) == [t |-> "string", s |-> s]
JSNum(n) == [t |-> "number", n |-> n]
JSBool(b) == [t |-> "boolean", b |-> b]
JSObj(class, props) == [t |-> "object", class |-> class, props |-> props]

\* typeof v
TypeOf(v) == IF v.t = "null" THEN "object" ELSE v.t

\* v == null (true of null and of undefined)
IsNullish(v) == v.t \in {"null", "undefined"}

\* name in v, for an object v
HasProp(v, name) == v.t = "object" /\ name \in DOMAIN v.props

\* v.name for a value that is neither null nor undefined
Get(v, name) == IF HasProp(v, name) THEN v.props[name] ELSE JSUndefined

\* the truthiness a || b tests
Truthy(v) ==
    CASE v.t = "undefined" -> FALSE
      [] v.t = "null" -> FALSE
      [] v.t = "string" -> v.s # ""
      [] v.t = "number" -> v.n # 0
      [] v.t = "boolean" -> v.b
      [] OTHER -> TRUE

\* a || b
Or(a, b) == IF Truthy(a) THEN a ELSE b

\* String(v); Error.prototype.toString gives the name alone for an empty message
ToStr(v) ==
    CASE v.t = "undefined" -> "undefined"
      [] v.t = "null" -> "null"
      [] v.t = "string" -> v.s
      [] v.t = "number" -> ToString(v.n)
      [] v.t = "boolean" -> (IF v.b THEN "true" ELSE "false")
      [] v.t = "object" /\ v.class = "Error" ->
            IF Get(v, "message") = JSStr("") THEN "Error"
            ELSE "Error: " \o Get(v, "message").s
      [] OTHER -> "[object Object]"

---------------------------------------------------------------------------
(* The error templates.                                                    *)

\* react-router's isRouteErrorResponse, a test of the value's shape
isRouteErrorResponse(error) ==
    /\ ~IsNullish(error)
    /\ TypeOf(Get(error, "status")) = "number"
    /\ TypeOf(Get(error, "statusText")) = "string"
    /\ TypeOf(Get(error, "internal")) = "boolean"
    /\ HasProp(error, "data")

\* RouteErrorResponse with <p>{error.message}</p> for its last line
RouteErrorResponseMessage(error) ==
    [template |-> "RouteErrorResponse",
     children |-> << JSStr("Ooops!"),
                     Get(error, "status"), JSStr(" - "), Get(error, "statusText"),
                     Get(error, "message") >>]

\* <h1>Ooops!</h1> <h3>{status} - {statusText}</h3> <p>{data}</p>
RouteErrorResponse(error) ==
    [template |-> "RouteErrorResponse",
     children |-> << JSStr("Ooops!"),
                     Get(error, "status"), JSStr(" - "), Get(error, "statusText"),
                     Get(error, "data") >>]

\* the generic template with (error as Error).message ?? String(error)
UnexpectedErrorNullish(error) ==
    IF IsNullish(error)
    THEN [template |-> "throw", children |-> << JSStr("TypeError") >>]
    ELSE [template |-> "UnexpectedError",
          children |-> << JSStr("Unexpected Error"),
                          IF IsNullish(Get(error, "message"))
                          THEN JSStr(ToStr(error)) ELSE Get(error, "message"),
                          JSStr("The stack is Here"),
                          Get(error, "stack") >>]

\* the return after the if: reading .message of null or undefined is a TypeError
UnexpectedError(error) ==
    IF IsNullish(error)
    THEN [template |-> "throw", children |-> << JSStr("TypeError") >>]
    ELSE [template |-> "UnexpectedError",
          children |-> << JSStr("Unexpected Error"),
                          Or(Get(error, "message"), JSStr(ToStr(error))),
                          JSStr("The stack is Here"),
                          Get(error, "stack") >>]

\* AppErrorBoundary with the test inverted: if(!isRouteErrorResponse(error))
AppErrorBoundaryInverted(error) ==
    IF ~isRouteErrorResponse(error)
    THEN RouteErrorResponse(error)
    ELSE UnexpectedError(error)

\* the element AppErrorBoundary returns when useRouteError() returns error
AppErrorBoundary(error) ==
    IF isRouteErrorResponse(error)
    THEN RouteErrorResponse(error)
    ELSE UnexpectedError(error)

---------------------------------------------------------------------------
(* The route table.                                                        *)

Root == << >>
Locations == { Root, <<"about">>, <<"users", "1">> }

RECURSIVE PathStr(_)
PathStr(loc) == IF loc = << >> THEN "" ELSE "/" \o Head(loc) \o PathStr(Tail(loc))

\* the pathname of a location
Pathname(loc) == IF loc = Root THEN "/" ELSE PathStr(loc)

rootRoutes ==
    [path |-> Root,
     ErrorBoundary |-> "AppErrorBoundary",
     children |-> << [index |-> TRUE, Component |-> "Home"] >>]

\* the path a child route adds to its parent's: none for an index route
ChildPath(child) == IF "path" \in DOMAIN child THEN child.path ELSE << >>

\* react-router's flattenRoutes: one branch per child, ranked before the branch
\* of the parent alone
flattenRoutes(route) ==
    [i \in 1..Len(route.children) |->
        [path |-> route.path \o ChildPath(route.children[i]),
         routes |-> << route, route.children[i] >>]]
    \o << [path |-> route.path, routes |-> << route >>] >>

\* matchRoutes with branches that match any location they are a prefix of
matchRoutesPrefix(route, loc) ==
    LET branches == flattenRoutes(route)
        hits == { i \in 1..Len(branches) :
                    /\ Len(branches[i].path) <= Len(loc)
                    /\ SubSeq(loc, 1, Len(branches[i].path)) = branches[i].path }
    IN IF hits = {} THEN << >>
       ELSE branches[CHOOSE i \in hits : \A j \in hits : i <= j].routes

\* react-router's matchRoutes: the routes of the first branch whose path is the
\* whole location, << >> when no branch matches
matchRoutes(route, loc) ==
    LET branches == flattenRoutes(route)
        hits == { i \in 1..Len(branches) : branches[i].path = loc }
    IN IF hits = {} THEN << >>
       ELSE branches[CHOOSE i \in hits : \A j \in hits : i <= j].routes

\* the page component of a match: the Component of its last route
PageOf(m) ==
    IF m # << >> /\ "Component" \in DOMAIN m[Len(m)]
    THEN m[Len(m)].Component ELSE "none"

\* the 404 the router produces for a location no route matches
NotFound(loc) ==
    JSObj("ErrorResponseImpl",
          [status |-> JSNum(404), statusText |-> JSStr("Not Found"),
           internal |-> JSBool(TRUE),
           data |-> JSStr("Error: No route matches URL \"" \o Pathname(loc) \o "\"")])

---------------------------------------------------------------------------
(* The counter and the two pages that show it.                             *)

\* the counter store of "@/store"
initialCount == 0
increment(c) == c + 1
reset(c) == 0

\* the counter hook of "@/hooks/use-counter"
useCounterInitial == 0
useCounterIncrement(c) == c + 1

\* Home with "Count is {count + 1}"
HomeOffByOne(c) ==
    [template |-> "Home",
     children |-> << JSStr("Counter example"), JSStr("Vite + React + TailwindCSS"),
                     JSStr("Count is "), JSNum(c + 1), JSStr("Reset"),
                     JSStr("Edit src/pages/index.tsx to see HMR in action!") >>]

\* the element Home returns for a count
Home(c) ==
    [template |-> "Home",
     children |-> << JSStr("Counter example"), JSStr("Vite + React + TailwindCSS"),
                     JSStr("Count is "), JSNum(c), JSStr("Reset"),
                     JSStr("Edit src/pages/index.tsx to see HMR in action!") >>]

\* the element App returns for a count
App(c) ==
    [template |-> "App",
     children |-> << JSStr("Counter example"), JSStr("Vite + React + TailwindCSS"),
                     JSStr("Count is "), JSNum(c),
                     JSStr("Edit src/pages/index.tsx to see HMR in action!") >>]

\* the count a rendered Home or App element shows
ShownCount(el) == el.children[4].n

---------------------------------------------------------------------------
(* The values that reach the error boundary.                               *)

\* what a throw statement or a rejected import can carry
ThrownValues ==
    { JSNull,
      JSStr("boom"),
      JSNum(42),
      JSObj("Error", [message |-> JSStr("Failed to fetch dynamically imported module"),
                      stack |-> JSStr("TypeError: Failed to fetch\n    at index.tsx:1:1")]),
      JSObj("Error", [message |-> JSStr(""),
                      stack |-> JSStr("Error\n    at Home (index.tsx:6:9)")]),
      JSObj("Object", [code |-> JSNum(7)]),
      JSObj("Object", [code |-> JSStr("E_UPSTREAM"), message |-> JSNum(503)]),
      JSObj("Object", [status |-> JSStr("404"), statusText |-> JSStr("Not Found"),
                       internal |-> JSBool(FALSE), data |-> JSStr("no such page")]),
      JSObj("ErrorResponseImpl",
            [status |-> JSNum(403), statusText |-> JSStr("Forbidden"),
             internal |-> JSBool(FALSE), data |-> JSStr("members only")]),
      JSObj("Object",
            [status |-> JSNum(500), statusText |-> JSStr("Internal Server Error"),
             internal |-> JSBool(FALSE), data |-> JSStr("query failed"),
             message |-> JSStr("connect ECONNREFUSED 10.0.0.5:5432"),
             stack |-> JSStr("Error: connect ECONNREFUSED\n    at db.ts:12:3")]) }

NoError == JSUndefined
Suspended == [template |-> "suspended", children |-> << >>]

\* what the router shows for an element of the root boundary: an error thrown by
\* the boundary itself has no boundary above it and unmounts the tree
Show(el) ==
    IF el.template = "throw"
    THEN [template |-> "uncaught", children |-> el.children]
    ELSE el

RouterAlive == screen.template # "uncaught"

---------------------------------------------------------------------------
(* The router over the route table.                                        *)

\* the router's state after it has matched loc and rendered the match: the 404
\* goes to the root boundary, the index route renders the lazy Home
Land(loc, lz, lzErr, c) ==
    LET m == matchRoutes(rootRoutes, loc) IN
    CASE m = << >> ->
            [matches |-> m, lazyHome |-> lz, routeError |-> NotFound(loc),
             screen |-> Show(AppErrorBoundary(NotFound(loc)))]
      [] m # << >> /\ PageOf(m) = "none" ->
            [matches |-> m, lazyHome |-> lz, routeError |-> NoError,
             screen |-> [template |-> "empty", children |-> << >>]]
      [] m # << >> /\ PageOf(m) # "none" /\ lz \in {"uninitialized", "pending"} ->
            [matches |-> m, lazyHome |-> "pending", routeError |-> NoError,
             screen |-> Suspended]
      [] m # << >> /\ PageOf(m) # "none" /\ lz = "resolved" ->
            [matches |-> m, lazyHome |-> lz, routeError |-> NoError,
             screen |-> Home(c)]
      [] m # << >> /\ PageOf(m) # "none" /\ lz = "rejected" ->
            [matches |-> m, lazyHome |-> lz, routeError |-> lzErr,
             screen |-> Show(AppErrorBoundary(lzErr))]

FilterIdle ==
    /\ fArgs = << >>
    /\ fResult = [kind |-> "none"]

\* useFetch: the url of the first render
firstUrl == "/api/users/1"

\* useFetch after the first render: the three useState calls, no effect run yet
FetchIdle ==
    /\ hMounted = FALSE
    /\ hUrl = firstUrl
    /\ hData = JSNull
    /\ hError = JSNull
    /\ hLoading = TRUE
    /\ hReqs = << >>
    /\ hEvent = [kind |-> "render", req |-> 0]

\* useForm: the initialValues the form is given
initialValues == [email |-> "", name |-> ""]

\* the object {}
EmptyObject == [k \in {} |-> ""]

\* useForm after the first render: the four useState calls
FormIdle ==
    /\ gValues = initialValues
    /\ gErrors = EmptyObject
    /\ gTouched = [k \in {} |-> TRUE]
    /\ gSubmitting = FALSE
    /\ gCalls = << >>
    /\ gEvent = "render"

\* the number of UserProfile instances that are mounted
MaxProfiles == 2

\* useAsync: the argument of useState
initialState == [status |-> "idle"]

\* useAsync: the state each of the four actions passes to setState
setIdle == [status |-> "idle"]
setLoading == [status |-> "loading"]
setSuccess(data) == [status |-> "success", data |-> data]

\* a setError that goes back to the initial state
setErrorResets(error) == [status |-> "idle"]

setError(error) == [status |-> "error", error |-> error]

\* an element whose render raised a TypeError: React unmounts the tree
RenderThrew == [template |-> "uncaught", children |-> << >>]

\* what UserProfile returns for a state: the exhaustive switch
UserProfile(state) ==
    CASE state.status = "idle" -> [template |-> "null", children |-> << >>]
      [] state.status = "loading" -> [template |-> "Spinner", children |-> << >>]
      [] state.status = "success" ->
            IF IsNullish(state.data)
            THEN RenderThrew
            ELSE [template |-> "div", children |-> << Get(state.data, "name") >>]
      [] state.status = "error" ->
            IF IsNullish(state.error)
            THEN RenderThrew
            ELSE [template |-> "Error", children |-> << Get(state.error, "message") >>]

\* useAsync after the first render of each component: useState({ status: 'idle' }),
\* the effect of UserProfile has not run yet
AsyncIdle ==
    /\ aState = initialState
    /\ uState = [i \in 1..MaxProfiles |-> initialState]
    /\ uFetch = [i \in 1..MaxProfiles |-> "none"]
    /\ uScreen = [i \in 1..MaxProfiles |-> UserProfile(initialState)]

\* the backend before the first request
BackendIdle == bReqs = << >>

\* the routed application as it is after a load of "/"
AppAtRoot ==
    /\ LET r == Land(Root, "uninitialized", NoError, initialCount) IN
          /\ location = Root
          /\ matches = r.matches
          /\ lazyHome = r.lazyHome
          /\ routeError = r.routeError
          /\ screen = r.screen
    /\ lazyError = NoError
    /\ count = initialCount
    /\ appCount = useCounterInitial
    /\ appScreen = App(useCounterInitial)
    /\ incs = 0
    /\ appIncs = 0
    /\ touched = FALSE
    /\ lastEvent = "load"
    /\ lastOps = << >>

Init ==
    /\ \E loc \in Locations :
          LET r == Land(loc, "uninitialized", NoError, initialCount) IN
          /\ location = loc
          /\ matches = r.matches
          /\ lazyHome = r.lazyHome
          /\ routeError = r.routeError
          /\ screen = r.screen
    /\ lazyError = NoError
    /\ count = initialCount
    /\ appCount = useCounterInitial
    /\ appScreen = App(useCounterInitial)
    /\ incs = 0
    /\ appIncs = 0
    /\ touched = FALSE
    /\ lastEvent = "load"
    /\ lastOps = << >>
    /\ FilterIdle
    /\ FetchIdle
    /\ FormIdle
    /\ AsyncIdle
    /\ BackendIdle

\* a navigation to loc
Navigate(loc) ==
    /\ RouterAlive
    /\ LET r == Land(loc, lazyHome, lazyError, count) IN
          /\ location' = loc
          /\ matches' = r.matches
          /\ lazyHome' = r.lazyHome
          /\ routeError' = r.routeError
          /\ screen' = r.screen
    /\ lastEvent' = "navigate"
    /\ lastOps' = << >>
    /\ UNCHANGED <<lazyError, count, appScreen, appCount, incs, appIncs, touched>>
    /\ UNCHANGED docVars

\* the import of the Home module is fulfilled
ImportFulfilled ==
    /\ lazyHome = "pending"
    /\ lazyHome' = "resolved"
    /\ screen' = IF screen = Suspended THEN Home(count) ELSE screen
    /\ lastEvent' = "import.fulfilled"
    /\ lastOps' = << >>
    /\ UNCHANGED <<location, matches, lazyError, routeError, count,
                   appScreen, appCount, incs, appIncs, touched>>
    /\ UNCHANGED docVars

\* the import of the Home module is rejected with e
ImportRejected(e) ==
    /\ lazyHome = "pending"
    /\ lazyHome' = "rejected"
    /\ lazyError' = e
    /\ IF screen = Suspended
       THEN /\ routeError' = e
            /\ screen' = Show(AppErrorBoundary(e))
       ELSE UNCHANGED <<routeError, screen>>
    /\ lastEvent' = "import.rejected"
    /\ lastOps' = << >>
    /\ UNCHANGED <<location, matches, count, appScreen, appCount, incs, appIncs, touched>>
    /\ UNCHANGED docVars

\* rendering Home throws e
HomeThrows(e) ==
    /\ screen.template = "Home"
    /\ routeError' = e
    /\ screen' = Show(AppErrorBoundary(e))
    /\ lastEvent' = "Home.throw"
    /\ lastOps' = << >>
    /\ UNCHANGED <<location, matches, lazyHome, lazyError, count,
                   appScreen, appCount, incs, appIncs, touched>>
    /\ UNCHANGED docVars

\* HomeRender with onClick={increment()}: the render itself increments
HomeRenderIncrements ==
    /\ screen.template = "Home"
    /\ screen # Home(count)
    /\ screen' = Home(count)
    /\ count' = increment(count)
    /\ incs' = incs + 1
    /\ touched' = TRUE
    /\ lastEvent' = "Home.render"
    /\ lastOps' = << "increment" >>
    /\ UNCHANGED <<location, matches, lazyHome, lazyError, routeError,
                   appScreen, appCount, appIncs>>
    /\ UNCHANGED docVars

\* Home is rendered again with the store's count
HomeRender ==
    /\ screen.template = "Home"
    /\ screen # Home(count)
    /\ screen' = Home(count)
    /\ lastEvent' = "Home.render"
    /\ lastOps' = << >>
    /\ UNCHANGED <<location, matches, lazyHome, lazyError, routeError, count,
                   appScreen, appCount, incs, appIncs, touched>>
    /\ UNCHANGED docVars

\* the button wired to the other handler: onClick={reset}
HomeClickIncrementWiredToReset ==
    /\ screen.template = "Home"
    /\ count < MaxCount
    /\ count' = reset(count)
    /\ incs' = incs + 1
    /\ touched' = TRUE
    /\ lastEvent' = "Home.count.click"
    /\ lastOps' = << "reset" >>
    /\ UNCHANGED <<location, matches, lazyHome, lazyError, routeError, screen,
                   appScreen, appCount, appIncs>>
    /\ UNCHANGED docVars

\* the handler closing over the rendered count: onClick={() => set({ count: count + 1 })}
HomeClickIncrementStale ==
    /\ screen.template = "Home"
    /\ count < MaxCount
    /\ count' = ShownCount(screen) + 1
    /\ incs' = incs + 1
    /\ touched' = TRUE
    /\ lastEvent' = "Home.count.click"
    /\ lastOps' = << "increment" >>
    /\ UNCHANGED <<location, matches, lazyHome, lazyError, routeError, screen,
                   appScreen, appCount, appIncs>>
    /\ UNCHANGED docVars

\* a click on Home's "Count is" button: onClick={increment}
HomeClickIncrement ==
    /\ screen.template = "Home"
    /\ count < MaxCount
    /\ count' = increment(count)
    /\ incs' = incs + 1
    /\ touched' = TRUE
    /\ lastEvent' = "Home.count.click"
    /\ lastOps' = << "increment" >>
    /\ UNCHANGED <<location, matches, lazyHome, lazyError, routeError, screen,
                   appScreen, appCount, appIncs>>
    /\ UNCHANGED docVars

\* the second button wired to a decrement
HomeClickDecrement ==
    /\ screen.template = "Home"
    /\ count' = count - 1
    /\ incs' = 0
    /\ touched' = TRUE
    /\ lastEvent' = "Home.reset.click"
    /\ lastOps' = << "decrement" >>
    /\ UNCHANGED <<location, matches, lazyHome, lazyError, routeError, screen,
                   appScreen, appCount, appIncs>>
    /\ UNCHANGED docVars

\* the Reset button wired to the other handler: onClick={increment}
HomeClickResetWiredToIncrement ==
    /\ screen.template = "Home"
    /\ count' = increment(count)
    /\ incs' = incs + 1
    /\ touched' = TRUE
    /\ lastEvent' = "Home.reset.click"
    /\ lastOps' = << "increment" >>
    /\ UNCHANGED <<location, matches, lazyHome, lazyError, routeError, screen,
                   appScreen, appCount, appIncs>>
    /\ UNCHANGED docVars

\* a click on Home's Reset button: onClick={reset}
HomeClickReset ==
    /\ screen.template = "Home"
    /\ count' = reset(count)
    /\ incs' = 0
    /\ touched' = TRUE
    /\ lastEvent' = "Home.reset.click"
    /\ lastOps' = << "reset" >>
    /\ UNCHANGED <<location, matches, lazyHome, lazyError, routeError, screen,
                   appScreen, appCount, appIncs>>
    /\ UNCHANGED docVars

\* handleClick calling increment() twice
AppClickTwice ==
    /\ appCount < MaxCount
    /\ appCount' = useCounterIncrement(useCounterIncrement(appCount))
    /\ appIncs' = appIncs + 2
    /\ lastEvent' = "App.count.click"
    /\ lastOps' = << "useCounter.increment", "useCounter.increment" >>
    /\ UNCHANGED <<location, matches, lazyHome, lazyError, routeError, screen,
                   count, appScreen, incs, touched>>
    /\ UNCHANGED docVars

\* a click on App's button: handleClick calls increment()
AppClick ==
    /\ appCount < MaxCount
    /\ appCount' = useCounterIncrement(appCount)
    /\ appIncs' = appIncs + 1
    /\ lastEvent' = "App.count.click"
    /\ lastOps' = << "useCounter.increment" >>
    /\ UNCHANGED <<location, matches, lazyHome, lazyError, routeError, screen,
                   count, appScreen, incs, touched>>
    /\ UNCHANGED docVars

\* App is rendered again with the hook's count
AppRender ==
    /\ appScreen # App(appCount)
    /\ appScreen' = App(appCount)
    /\ lastEvent' = "App.render"
    /\ lastOps' = << >>
    /\ UNCHANGED <<location, matches, lazyHome, lazyError, routeError, screen,
                   count, appCount, incs, appIncs, touched>>
    /\ UNCHANGED docVars

Next ==
    \/ \E loc \in Locations : Navigate(loc)
    \/ ImportFulfilled
    \/ \E e \in ThrownValues : ImportRejected(e)
    \/ \E e \in ThrownValues : HomeThrows(e)
    \/ HomeRender
    \/ HomeClickIncrement
    \/ HomeClickReset
    \/ AppClick
    \/ AppRender

\* the import of the Home module settles, one way or the other
ImportSettles ==
    \/ ImportFulfilled
    \/ \E e \in ThrownValues : ImportRejected(e)

\* the application with an import that, once started, settles
SpecLive == Init /\ [][Next]_vars /\ WF_vars(ImportSettles)

Spec == Init /\ [][Next]_vars

---------------------------------------------------------------------------
(* filterByStatus of the engineering practices.                            *)

JSArray(items) == [t |-> "array", items |-> items]

\* Array.isArray(v)
IsArray(v) == v.t = "array"

validStatuses == << "pending", "approved", "rejected" >>

\* array.includes(x)
Includes(array, x) == \E i \in 1..Len(array) : array[i] = x

\* a thrown Error, by its message
Throw(message) == [kind |-> "throw", message |-> message]
Return(value) == [kind |-> "return", value |-> value]

\* filterByStatus without the check of status
filterByStatusUnchecked(applications, status) ==
    IF ~IsArray(applications)
    THEN Throw("applications must be an array")
    ELSE Return(SelectSeq(applications.items, LAMBDA app : app.status = status))

\* the call filterByStatus(applications, status)
filterByStatus(applications, status) ==
    IF ~IsArray(applications)
    THEN Throw("applications must be an array")
    ELSE IF ~Includes(validStatuses, status)
    THEN Throw("Invalid status: " \o status)
    ELSE Return(SelectSeq(applications.items, LAMBDA app : app.status = status))

\* the inputs of the calls
Statuses == { "pending", "approved", "rejected", "archived" }
Applications == [id : 1..2, status : { "pending", "approved", "rejected" }]
ApplicationArrays ==
    UNION { [1..n -> Applications] : n \in 0..MaxApps }
ApplicationInputs ==
    { JSArray(a) : a \in ApplicationArrays } \cup { JSNull, JSObj("Object", [length |-> JSNum(0)]) }

InitFilter ==
    /\ AppAtRoot
    /\ fArgs \in ApplicationInputs \X Statuses
    /\ fResult = [kind |-> "none"]
    /\ FetchIdle
    /\ FormIdle
    /\ AsyncIdle
    /\ BackendIdle

\* the caller applies filterByStatus to its arguments
CallFilterByStatus ==
    /\ fResult.kind = "none"
    /\ fResult' = filterByStatus(fArgs[1], fArgs[2])
    /\ UNCHANGED fArgs
    /\ UNCHANGED <<appVars, fetchVars, formVars, asyncVars, backendVars>>

NextFilter == CallFilterByStatus

SpecFilter == InitFilter /\ [][NextFilter]_vars

---------------------------------------------------------------------------
(* The useFetch hook of the typing guidelines.                             *)

MaxRequests == 3

Urls == { "/api/users/1", "/api/users/2" }

\* new Error(message)
ErrorOf(message) == JSObj("Error", [message |-> JSStr(message)])

\* e instanceof Error
IsError(e) == e.t = "object" /\ e.class = "Error"

\* the parsed body of the response to call i, made for url
Body(i, url) == [t |-> "json", req |-> i, url |-> url]

\* what await fetch(url) ends with: a response, or a rejection with a reason
FetchOutcomes ==
    { [kind |-> "response", ok |-> TRUE, status |-> 200],
      [kind |-> "response", ok |-> FALSE, status |-> 404],
      [kind |-> "response", ok |-> FALSE, status |-> 500],
      [kind |-> "rejected", reason |-> ErrorOf("Failed to fetch")],
      [kind |-> "rejected", reason |-> JSStr("timeout")] }

\* what await response.json() ends with
JsonOutcomes == { "parsed", "syntaxError" }

\* a call of fetchData with its state: fetching, parsing or settled
Request(url, phase, result) == [url |-> url, phase |-> phase, result |-> result]

\* e instanceof Error ? e : new Error('Unknown error')
AsError(e) == IF IsError(e) THEN e ELSE ErrorOf("Unknown error")

\* the catch block with setIsLoading(false) left at the end of the try block
CatchNoFinally(i, e, kind) ==
    /\ hError' = AsError(e)
    /\ hReqs' = [hReqs EXCEPT ![i] = Request(hReqs[i].url, "settled", "failed")]
    /\ hEvent' = [kind |-> kind, req |-> i]
    /\ UNCHANGED <<hMounted, hUrl, hData, hLoading>>

\* catch (e) { setError(...) } finally { setIsLoading(false) }, for call i
CatchFinally(i, e, kind) ==
    /\ hError' = AsError(e)
    /\ hLoading' = FALSE
    /\ hReqs' = [hReqs EXCEPT ![i] = Request(hReqs[i].url, "settled", "failed")]
    /\ hEvent' = [kind |-> kind, req |-> i]
    /\ UNCHANGED <<hMounted, hUrl, hData>>

\* fetchData up to its first await: setIsLoading(true); setError(null); fetch(url)
fetchData(url) ==
    /\ Len(hReqs) < MaxRequests
    /\ hLoading' = TRUE
    /\ hError' = JSNull
    /\ hReqs' = Append(hReqs, Request(url, "fetching", "none"))
    /\ hEvent' = [kind |-> "start", req |-> Len(hReqs) + 1]
    /\ UNCHANGED hData

\* the effect of the first render
FetchMount ==
    /\ ~hMounted
    /\ hMounted' = TRUE
    /\ fetchData(hUrl)
    /\ UNCHANGED hUrl
    /\ UNCHANGED <<appVars, filterVars, formVars, asyncVars, backendVars>>

\* a render with another url: fetchData is made anew and the effect runs again
FetchChangeUrl(url) ==
    /\ hMounted
    /\ url # hUrl
    /\ hUrl' = url
    /\ fetchData(url)
    /\ UNCHANGED hMounted
    /\ UNCHANGED <<appVars, filterVars, formVars, asyncVars, backendVars>>

\* a call of refetch
Refetch ==
    /\ hMounted
    /\ fetchData(hUrl)
    /\ UNCHANGED <<hMounted, hUrl>>
    /\ UNCHANGED <<appVars, filterVars, formVars, asyncVars, backendVars>>

\* await fetch(url) of call i ends with outcome o
FetchSettles(i, o) ==
    /\ i \in 1..Len(hReqs)
    /\ hReqs[i].phase = "fetching"
    /\ CASE o.kind = "rejected" ->
                CatchFinally(i, o.reason, "rejected")
         [] o.kind = "response" /\ ~o.ok ->
                CatchFinally(i, ErrorOf("HTTP error: " \o ToString(o.status)), "notOk")
         [] o.kind = "response" /\ o.ok ->
                /\ hReqs' = [hReqs EXCEPT ![i] = Request(hReqs[i].url, "parsing", "none")]
                /\ hEvent' = [kind |-> "ok", req |-> i]
                /\ UNCHANGED <<hMounted, hUrl, hData, hError, hLoading>>
    /\ UNCHANGED <<appVars, filterVars, formVars, asyncVars, backendVars>>

\* await response.json() of call i ends with outcome o
JsonSettles(i, o) ==
    /\ i \in 1..Len(hReqs)
    /\ hReqs[i].phase = "parsing"
    /\ IF o = "parsed"
       THEN /\ hData' = Body(i, hReqs[i].url)
            /\ hLoading' = FALSE
            /\ hReqs' = [hReqs EXCEPT ![i] = Request(hReqs[i].url, "settled", "ok")]
            /\ hEvent' = [kind |-> "parsed", req |-> i]
            /\ UNCHANGED <<hMounted, hUrl, hError>>
       ELSE CatchFinally(i, ErrorOf("Unexpected end of JSON input"), "parseFailed")
    /\ UNCHANGED <<appVars, filterVars, formVars, asyncVars, backendVars>>

InitFetch ==
    /\ AppAtRoot
    /\ FilterIdle
    /\ FetchIdle
    /\ FormIdle
    /\ AsyncIdle
    /\ BackendIdle

NextFetch ==
    \/ FetchMount
    \/ \E url \in Urls : FetchChangeUrl(url)
    \/ Refetch
    \/ \E i \in 1..MaxRequests, o \in FetchOutcomes : FetchSettles(i, o)
    \/ \E i \in 1..MaxRequests, o \in JsonOutcomes : JsonSettles(i, o)

SpecFetch == InitFetch /\ [][NextFetch]_vars

---------------------------------------------------------------------------
(* The useForm hook of the typing guidelines.                              *)

MaxSubmits == 3

Fields == { "email", "name" }
FieldValues == [email |-> { "", "ann@example.org" }, name |-> { "", "Ann" }]

\* the validate the form is given: every field is required
validate(values) == [k \in { f \in Fields : values[f] = "" } |-> "Required"]

\* Object.keys(o).length === 0
NoKeys(o) == DOMAIN o = {}

\* handleChange(field, value)
handleChange(field, value) ==
    /\ gValues' = [gValues EXCEPT ![field] = value]
    /\ gEvent' = "change"
    /\ UNCHANGED <<gErrors, gTouched, gSubmitting, gCalls>>
    /\ UNCHANGED <<appVars, filterVars, fetchVars, asyncVars, backendVars>>

\* handleBlur(field)
handleBlur(field) ==
    /\ gTouched' = [k \in DOMAIN gTouched \cup {field} |-> TRUE]
    /\ gErrors' = validate(gValues)
    /\ gEvent' = "blur"
    /\ UNCHANGED <<gValues, gSubmitting, gCalls>>
    /\ UNCHANGED <<appVars, filterVars, fetchVars, asyncVars, backendVars>>

\* handleSubmit up to its await: validate, setErrors and, with no error,
\* setIsSubmitting(true) and the call of onSubmit
handleSubmit ==
    LET validationErrors == validate(gValues) IN
    /\ gErrors' = validationErrors
    /\ IF NoKeys(validationErrors)
       THEN /\ Len(gCalls) < MaxSubmits
            /\ gSubmitting' = TRUE
            /\ gCalls' = Append(gCalls, [values |-> gValues, state |-> "pending"])
            /\ gEvent' = "submit"
       ELSE /\ gEvent' = "submit.invalid"
            /\ UNCHANGED <<gSubmitting, gCalls>>
    /\ UNCHANGED <<gValues, gTouched>>
    /\ UNCHANGED <<appVars, filterVars, fetchVars, asyncVars, backendVars>>

\* await onSubmit(values) of call i ends, fulfilled or rejected: the finally block
SubmitSettles(i, outcome) ==
    /\ i \in 1..Len(gCalls)
    /\ gCalls[i].state = "pending"
    /\ gSubmitting' = FALSE
    /\ gCalls' = [gCalls EXCEPT ![i].state = outcome]
    /\ gEvent' = "settled"
    /\ UNCHANGED <<gValues, gErrors, gTouched>>
    /\ UNCHANGED <<appVars, filterVars, fetchVars, asyncVars, backendVars>>

\* reset()
formReset ==
    /\ gValues' = initialValues
    /\ gErrors' = EmptyObject
    /\ gTouched' = [k \in {} |-> TRUE]
    /\ gEvent' = "reset"
    /\ UNCHANGED <<gSubmitting, gCalls>>
    /\ UNCHANGED <<appVars, filterVars, fetchVars, asyncVars, backendVars>>

InitForm ==
    /\ AppAtRoot
    /\ FilterIdle
    /\ FetchIdle
    /\ FormIdle
    /\ AsyncIdle
    /\ BackendIdle

NextForm ==
    \/ \E field \in Fields : \E value \in FieldValues[field] : handleChange(field, value)
    \/ \E field \in Fields : handleBlur(field)
    \/ handleSubmit
    \/ \E i \in 1..MaxSubmits, outcome \in {"fulfilled", "rejected"} : SubmitSettles(i, outcome)
    \/ formReset

SpecForm == InitForm /\ [][NextForm]_vars

---------------------------------------------------------------------------
(* The useAsync loading state machine of the typing guidelines, and the    *)
(* UserProfile component that uses it.                                     *)

\* how a promise settles
Fulfilled(value) == [kind |-> "fulfilled", value |-> value]
Rejected(reason) == [kind |-> "rejected", value |-> reason]

\* the users fetchUser() resolves to
ProfileUsers ==
    { JSObj("Object", [name |-> JSStr("Ann")]),
      JSObj("Object", [name |-> JSStr("Bob")]) }

\* the reasons fetchUser() rejects with
ProfileFailures == { ErrorOf("Failed to fetch user"), JSStr("offline"), JSNull }

FetchUserOutcomes ==
    { Fulfilled(u) : u \in ProfileUsers } \cup { Rejected(e) : e \in ProfileFailures }

\* the values a component passes to setSuccess and to setError
AsyncData == ProfileUsers
AsyncErrors == { ErrorOf("Failed to fetch user") }

\* a component calls one of the four actions of the hook
CallSetIdle ==
    /\ aState' = setIdle
    /\ UNCHANGED <<uState, uFetch, uScreen>>
    /\ UNCHANGED <<appVars, filterVars, fetchVars, formVars, backendVars>>

CallSetLoading ==
    /\ aState' = setLoading
    /\ UNCHANGED <<uState, uFetch, uScreen>>
    /\ UNCHANGED <<appVars, filterVars, fetchVars, formVars, backendVars>>

CallSetSuccess(data) ==
    /\ aState' = setSuccess(data)
    /\ UNCHANGED <<uState, uFetch, uScreen>>
    /\ UNCHANGED <<appVars, filterVars, fetchVars, formVars, backendVars>>

CallSetError(error) ==
    /\ aState' = setError(error)
    /\ UNCHANGED <<uState, uFetch, uScreen>>
    /\ UNCHANGED <<appVars, filterVars, fetchVars, formVars, backendVars>>

\* .then(setSuccess).catch(setError): the state the settled promise leaves
thenCatch(outcome) ==
    IF outcome.kind = "fulfilled"
    THEN setSuccess(outcome.value)
    ELSE setError(outcome.value)

\* the effect of UserProfile i runs after its first render: setLoading(),
\* fetchUser() is called, and the component renders again
UserProfileEffect(i) ==
    /\ uFetch[i] = "none"
    /\ uState' = [uState EXCEPT ![i] = setLoading]
    /\ uFetch' = [uFetch EXCEPT ![i] = "pending"]
    /\ uScreen' = [uScreen EXCEPT ![i] = UserProfile(setLoading)]
    /\ UNCHANGED aState
    /\ UNCHANGED <<appVars, filterVars, fetchVars, formVars, backendVars>>

\* the promise of fetchUser() of UserProfile i settles, and the component
\* renders again
UserProfileSettles(i, outcome) ==
    /\ uFetch[i] = "pending"
    /\ uState' = [uState EXCEPT ![i] = thenCatch(outcome)]
    /\ uFetch' = [uFetch EXCEPT ![i] = outcome.kind]
    /\ uScreen' = [uScreen EXCEPT ![i] = UserProfile(thenCatch(outcome))]
    /\ UNCHANGED aState
    /\ UNCHANGED <<appVars, filterVars, fetchVars, formVars, backendVars>>

InitAsync ==
    /\ AppAtRoot
    /\ FilterIdle
    /\ FetchIdle
    /\ FormIdle
    /\ AsyncIdle
    /\ BackendIdle

NextAsync ==
    \/ CallSetIdle
    \/ CallSetLoading
    \/ \E data \in AsyncData : CallSetSuccess(data)
    \/ \E error \in AsyncErrors : CallSetError(error)
    \/ \E i \in 1..MaxProfiles : UserProfileEffect(i)
    \/ \E i \in 1..MaxProfiles, o \in FetchUserOutcomes : UserProfileSettles(i, o)

\* React runs the effect of a mounted component, and fetchUser() settles
EffectRuns(i) == UserProfileEffect(i)
FetchUserSettles(i) == \E o \in FetchUserOutcomes : UserProfileSettles(i, o)

SpecAsync ==
    /\ InitAsync
    /\ [][NextAsync]_vars
    /\ \A i \in 1..MaxProfiles : WF_vars(EffectRuns(i)) /\ WF_vars(FetchUserSettles(i))

---------------------------------------------------------------------------
(* The backend request path of the architecture guide: UserController,     *)
(* GetUserUseCase and UserRepository.                                      *)

\* the number of requests
MaxCalls == 2

\* req.params.id
UserIds == { "1", "2" }

\* new User(id, email, name, createdAt)
User(id) ==
    JSObj("User", [id |-> JSStr(id),
                   email |-> JSStr("user" \o id \o "@example.org"),
                   name |-> JSStr("User " \o id),
                   createdAt |-> JSObj("Date", [iso |-> JSStr("2024-01-01T00:00:00.000Z")])])

\* the reasons userRepository.findById rejects with
RepositoryFailures == { ErrorOf("connection refused"), JSStr("ETIMEDOUT"), JSNull }

\* how userRepository.findById(id) settles: the user with this id, null when
\* there is none, or a failure of the database
findById(id) ==
    { Fulfilled(User(id)), Fulfilled(JSNull) }
        \cup { Rejected(e) : e \in RepositoryFailures }

\* GetUserUseCase.execute, from the point where findById has settled
execute(found) ==
    IF found.kind = "rejected"
    THEN found
    ELSE IF ~Truthy(found.value)
         THEN Rejected(ErrorOf("User not found"))
         ELSE Fulfilled(found.value)

\* the value a client parses from the body res.json(value) sends: a Date is
\* written as its ISO string, a property that is undefined is left out
toJSON(v) == IF v.t = "object" /\ v.class = "Date" THEN v.props.iso ELSE v

stringify(v) ==
    IF v.t = "object"
    THEN JSObj("Object", [k \in { j \in DOMAIN v.props : v.props[j].t # "undefined" }
                              |-> toJSON(v.props[k])])
    ELSE v

\* UserController.getUser, from the point where execute has settled: the
\* responses it sends and how its own promise settles. Reading error.message
\* of null or undefined raises a TypeError inside the catch block.
getUser(result) ==
    IF result.kind = "fulfilled"
    THEN [responses |-> << [status |-> 200, body |-> stringify(result.value)] >>,
          promise |-> "fulfilled"]
    ELSE IF IsNullish(result.value)
         THEN [responses |-> << >>, promise |-> "rejected"]
         ELSE [responses |->
                  << [status |-> 500,
                      body |-> stringify(JSObj("Object",
                                  [error |-> Get(result.value, "message")]))] >>,
               promise |-> "fulfilled"]

Unsettled == [kind |-> "none"]

\* a request arrives: getUser reads req.params.id and calls execute, which
\* calls findById and waits
GetUserRequest(id) ==
    /\ Len(bReqs) < MaxCalls
    /\ bReqs' = Append(bReqs, [id |-> id, phase |-> "findById",
                               found |-> Unsettled, result |-> Unsettled,
                               responses |-> << >>, promise |-> "pending"])
    /\ UNCHANGED <<appVars, filterVars, fetchVars, formVars, asyncVars>>

\* findById of request i settles: execute continues, then getUser
FindByIdSettles(i, found) ==
    /\ i \in 1..Len(bReqs)
    /\ bReqs[i].phase = "findById"
    /\ found \in findById(bReqs[i].id)
    /\ LET result == execute(found)
           sent == getUser(result)
       IN bReqs' = [bReqs EXCEPT ![i] =
                      [id |-> bReqs[i].id, phase |-> "done",
                       found |-> found, result |-> result,
                       responses |-> sent.responses, promise |-> sent.promise]]
    /\ UNCHANGED <<appVars, filterVars, fetchVars, formVars, asyncVars>>

\* every way findById settles, for any id
RepositoryOutcomes == UNION { findById(id) : id \in UserIds }

InitBackend ==
    /\ AppAtRoot
    /\ FilterIdle
    /\ FetchIdle
    /\ FormIdle
    /\ AsyncIdle
    /\ BackendIdle

NextBackend ==
    \/ \E id \in UserIds : GetUserRequest(id)
    \/ \E i \in 1..MaxCalls, found \in RepositoryOutcomes : FindByIdSettles(i, found)

SpecBackend == InitBackend /\ [][NextBackend]_vars

---------------------------------------------------------------------------
(* The counter.                                                            *)

\* C1: in every state reached by increments and resets the counter's count
\* is a non-negative integer.
CountNonNegative == count \in Nat

CountNonNegativeWitness ==
    /\ lastEvent = "Home.reset.click"
    /\ count = 0
    /\ ShownCount(screen) > 0

\* C2: a click on a "Count is" button takes the count n it acts on to n + 1.
IncrementAddsOne ==
    [][ /\ lastEvent' = "Home.count.click" => count' = count + 1
        /\ lastEvent' = "App.count.click" => appCount' = appCount + 1 ]_vars

IncrementAddsOneWitness ==
    /\ lastEvent = "Home.count.click"
    /\ count = 2

\* C3: before any increment or reset the count is 0, and 0 is what Home shows.
StartsAtZero ==
    ~touched => /\ count = 0
                /\ screen.template = "Home" => ShownCount(screen) = 0

StartsAtZeroWitness ==
    /\ ~touched
    /\ screen.template = "Home"
    /\ lastEvent = "import.fulfilled"

\* C7: a step that is neither a click on Home's "Count is" button nor a click on
\* its Reset button leaves the store's count as it was, and only a click on
\* App's button changes the count of App.
CounterFrame ==
    [][ /\ lastEvent' \notin {"Home.count.click", "Home.reset.click"} => count' = count
        /\ lastEvent' # "App.count.click" => appCount' = appCount ]_vars

CounterFrameWitness ==
    /\ count > 0
    /\ lastEvent = "navigate"
    /\ screen.template = "RouteErrorResponse"

\* C9: the count is the number of increments performed since the last reset,
\* however the clicks fall between the renders.
NoLostUpdate ==
    /\ count = incs
    /\ appCount = appIncs

NoLostUpdateWitness ==
    /\ count = 2
    /\ screen = Home(0)

\* C11: a click on Reset leaves the count at its initial value 0, and a Reset
\* that follows a Reset changes nothing.
ResetReturnsToZero ==
    [][ lastEvent' = "Home.reset.click" =>
            /\ count' = 0
            /\ lastEvent = "Home.reset.click" => count' = count ]_vars

ResetReturnsToZeroWitness ==
    /\ lastEvent = "Home.reset.click"
    /\ count = 0
    /\ ShownCount(screen) = 2

\* C17: a click on a "Count is" button calls increment once and nothing else, a
\* click on Reset calls reset once and nothing else, and the count App shows
\* never goes down.
OneOperationPerClick ==
    [][ /\ lastEvent' = "Home.count.click" => lastOps' = << "increment" >>
        /\ lastEvent' = "Home.reset.click" => lastOps' = << "reset" >>
        /\ lastEvent' = "App.count.click" =>
              /\ lastOps' = << "useCounter.increment" >>
              /\ appCount' = appCount + 1
        /\ appCount' >= appCount
        /\ ShownCount(appScreen') >= ShownCount(appScreen) ]_vars

OneOperationPerClickWitness ==
    /\ lastEvent = "App.render"
    /\ ShownCount(appScreen) = 2
    /\ count = 0
    /\ touched

---------------------------------------------------------------------------
(* The error boundary.                                                     *)

\* C4: for every error value delivered to the boundary one of the two templates
\* is rendered, the RouteErrorResponse template exactly when the value is a
\* structured route error and the generic template otherwise.
TwoWayDispatch ==
    routeError # NoError =>
        IF isRouteErrorResponse(routeError)
        THEN screen.template = "RouteErrorResponse"
        ELSE screen.template = "UnexpectedError"

\* C5: for a structured route error the screen is the RouteErrorResponse template
\* holding that error's status, statusText and data as they are, and neither its
\* message nor its stack.
RouteTemplateShowsFields ==
    isRouteErrorResponse(routeError) =>
        /\ screen.template = "RouteErrorResponse"
        /\ screen.children = << JSStr("Ooops!"),
                                routeError.props.status, JSStr(" - "),
                                routeError.props.statusText,
                                routeError.props.data >>
        /\ \A f \in {"message", "stack"} :
              HasProp(routeError, f) =>
                  \A i \in DOMAIN screen.children :
                      screen.children[i] # routeError.props[f]

RouteTemplateShowsFieldsWitness ==
    /\ isRouteErrorResponse(routeError)
    /\ HasProp(routeError, "stack")
    /\ screen.template = "RouteErrorResponse"

\* C6: no screen shows the stack of the error it reports.
NoStackShown ==
    HasProp(routeError, "stack") =>
        \A i \in DOMAIN screen.children :
            screen.children[i] # routeError.props.stack

\* C12: for every value that is not a structured route error, null and thrown
\* strings and numbers included, the boundary produces the generic template.
BoundaryRendersGeneric ==
    (routeError # NoError /\ ~isRouteErrorResponse(routeError)) =>
        /\ AppErrorBoundary(routeError).template = "UnexpectedError"
        /\ screen.template = "UnexpectedError"

\* the text of the generic template
ShownText == screen.children[2]

\* C13 as stated: the text is the message when the message is a non-empty
\* string, and String(error) otherwise.
MessageOrString ==
    screen.template = "UnexpectedError" =>
        LET m == Get(routeError, "message") IN
        ShownText = IF m.t = "string" /\ m.s # "" THEN m
                    ELSE JSStr(ToStr(routeError))

\* C13 as amended: the text is the message when the message is truthy (for a
\* string: non-empty), and String(error) otherwise: "Error" for an Error with an
\* empty message, the value itself for a thrown string, its digits for a number.
MessageIfTruthyOrString ==
    screen.template = "UnexpectedError" =>
        LET m == Get(routeError, "message")
            falsy == \/ m.t \in {"undefined", "null"}
                     \/ m = JSStr("")
                     \/ m = JSNum(0)
                     \/ m = JSBool(FALSE)
        IN /\ ShownText = IF falsy THEN JSStr(ToStr(routeError)) ELSE m
           /\ routeError.t = "string" => ShownText = routeError
           /\ routeError = JSNum(42) => ShownText = JSStr("42")
           /\ (routeError.t = "object" /\ routeError.class = "Error" /\ m = JSStr(""))
                 => ShownText = JSStr("Error")
           /\ (routeError.t = "object" /\ routeError.class = "Object" /\ falsy)
                 => ShownText = JSStr("[object Object]")

MessageIfTruthyOrStringWitness ==
    /\ screen.template = "UnexpectedError"
    /\ Get(routeError, "message") = JSStr("")
    /\ ShownText = JSStr("Error")

ErrorTemplates == {"RouteErrorResponse", "UnexpectedError"}

\* C14: once an error has been raised under the root route, by Home's render or
\* by the rejected import of its module, the screen is one of the two error
\* templates and not the Home page.
ErrorsReachBoundary ==
    (routeError # NoError /\ location = Root) =>
        screen.template \in ErrorTemplates

\* C15: at "/", with an import that settles, the loading state leads to the Home
\* page or to an error template, and Home is shown only once the import has
\* been fulfilled.
LazyProgress ==
    /\ [](screen.template = "Home" => lazyHome = "resolved")
    /\ (location = Root /\ screen = Suspended)
          ~> (screen.template \in ErrorTemplates \cup {"Home"})

\* C16: at a location other than "/" no page route matches, the error is the
\* router's 404, and the screen is the RouteErrorResponse template showing it.
NotFoundShown ==
    location # Root =>
        /\ matches = << >>
        /\ isRouteErrorResponse(routeError)
        /\ Get(routeError, "status") = JSNum(404)
        /\ screen.template = "RouteErrorResponse"
        /\ screen.children[2] = JSNum(404)
        /\ screen.children[4] = JSStr("Not Found")

NotFoundShownWitness ==
    /\ location = <<"users", "1">>
    /\ lastEvent = "navigate"
    /\ lazyHome = "resolved"
    /\ count > 0

---------------------------------------------------------------------------
(* The route table.                                                        *)

\* C8: the root route has one child, the index route; the location "/" is the
\* only one that matches a page component, and the component is Home.
OneRoute ==
    /\ Len(rootRoutes.children) = 1
    /\ PageOf(matches) # "none" <=> location = Root
    /\ PageOf(matches) \in {"none", "Home"}
    /\ screen.template \in {"Home", "suspended"} => location = Root

OneRouteWitness ==
    /\ location = Root
    /\ PageOf(matches) = "Home"
    /\ screen.template = "Home"
    /\ lastEvent = "navigate"

---------------------------------------------------------------------------
(* filterByStatus.                                                         *)

\* the indices of the applications with a status
Matching(items, status) == { i \in 1..Len(items) : items[i].status = status }

\* the k-th smallest member of a set of indices
Kth(idx, k) == CHOOSE i \in idx : Cardinality({ j \in idx : j < i }) = k - 1

\* C10: for an array and a valid status filterByStatus returns exactly the
\* applications with that status, in input order, so no more than it was given;
\* for any other input it throws and returns nothing.
FilterContract ==
    fResult.kind # "none" =>
        LET applications == fArgs[1]
            status == fArgs[2]
        IN IF IsArray(applications) /\ status \in {"pending", "approved", "rejected"}
           THEN LET idx == Matching(applications.items, status) IN
                /\ fResult.kind = "return"
                /\ Len(fResult.value) = Cardinality(idx)
                /\ \A k \in 1..Len(fResult.value) :
                      fResult.value[k] = applications.items[Kth(idx, k)]
                /\ Len(fResult.value) <= Len(applications.items)
           ELSE /\ fResult.kind = "throw"
                /\ "value" \notin DOMAIN fResult

FilterContractWitness ==
    /\ fResult.kind = "return"
    /\ Len(fResult.value) = 2
    /\ Len(fArgs[1].items) = 3
    /\ fResult.value[1] # fResult.value[2]

---------------------------------------------------------------------------
(* useFetch.                                                               *)

SettledKinds == {"rejected", "notOk", "parsed", "parseFailed"}

\* C18 as stated: a start sets isLoading and clears error; every settling clears
\* isLoading; an OK response stores its body and leaves error null; a network
\* failure or a non-OK status stores an Error and leaves data.
FetchLifecycle ==
    [][ LET k == hEvent'.kind
            i == hEvent'.req
        IN /\ k = "start" => (hLoading' = TRUE /\ hError' = JSNull)
           /\ k \in SettledKinds => hLoading' = FALSE
           /\ k \in {"parsed", "parseFailed"} =>
                 (hData' = Body(i, hReqs[i].url) /\ hError' = JSNull)
           /\ k \in {"rejected", "notOk"} =>
                 (IsError(hError') /\ hData' = hData) ]_vars

\* C18 as amended: a start sets isLoading and clears error; every settling clears
\* isLoading; an OK response whose body parses stores the body and leaves error
\* as it was (null when this is the only call so far); a network failure, a
\* non-OK status or a body that does not parse stores an Error and leaves data.
FetchLifecycleAmended ==
    [][ LET k == hEvent'.kind
            i == hEvent'.req
        IN /\ k = "start" => (hLoading' = TRUE /\ hError' = JSNull)
           /\ k \in SettledKinds => hLoading' = FALSE
           /\ k = "parsed" =>
                 /\ hData' = Body(i, hReqs[i].url)
                 /\ hError' = hError
                 /\ Len(hReqs) = 1 => hError' = JSNull
           /\ k \in {"rejected", "notOk", "parseFailed"} =>
                 (IsError(hError') /\ hData' = hData) ]_vars

FetchLifecycleAmendedWitness ==
    /\ hEvent.kind = "parseFailed"
    /\ IsError(hError)
    /\ ~hLoading
    /\ hData # JSNull

AllSettled == \A i \in 1..Len(hReqs) : hReqs[i].phase = "settled"

\* C19: once every call has settled data is the response of the call started
\* last, and isLoading is false only when no call is in flight.
LatestWins ==
    /\ ~hLoading => AllSettled
    /\ (hReqs # << >> /\ AllSettled /\ hReqs[Len(hReqs)].result = "ok") =>
          hData = Body(Len(hReqs), hReqs[Len(hReqs)].url)

---------------------------------------------------------------------------
(* useForm.                                                                *)

SubmitPending == \E i \in 1..Len(gCalls) : gCalls[i].state = "pending"

\* C20: onSubmit is called only with values that validate has no error for;
\* isSubmitting is true exactly while a call of onSubmit is pending, whether the
\* call ends fulfilled or rejected; a submit that fails validation calls
\* nothing and, with no call pending, leaves isSubmitting false.
SubmitLifecycle ==
    /\ \A i \in 1..Len(gCalls) : NoKeys(validate(gCalls[i].values))
    /\ gSubmitting <=> SubmitPending
    /\ (gEvent = "submit.invalid" /\ ~SubmitPending) => ~gSubmitting

---------------------------------------------------------------------------
(* useAsync and UserProfile.                                               *)

AsyncStatuses == {"idle", "loading", "success", "error"}

\* a state of the hook has one of the four statuses, data exactly in success
\* and error exactly in error
WellFormed(state) ==
    /\ state.status \in AsyncStatuses
    /\ ("data" \in DOMAIN state) <=> (state.status = "success")
    /\ ("error" \in DOMAIN state) <=> (state.status = "error")

Settled(i) == uState[i].status \in {"success", "error"}

\* C21: every state of useAsync has exactly one of the four statuses, with data
\* present only in success and error present only in error; the state of a
\* UserProfile starts idle, is loading once its effect has run, never goes back
\* to idle, and, fetchUser() settling, eventually is success or error.
AsyncStateMachine ==
    /\ [](WellFormed(aState) /\ \A i \in 1..MaxProfiles : WellFormed(uState[i]))
    /\ \A i \in 1..MaxProfiles : uState[i].status = "idle"
    /\ [][ \A i \in 1..MaxProfiles :
             /\ (uFetch[i] = "none" /\ uFetch'[i] # "none") =>
                    uState'[i].status = "loading"
             /\ uState[i].status # "idle" => uState'[i].status # "idle" ]_vars
    /\ \A i \in 1..MaxProfiles : <>Settled(i)

AsyncStateMachineWitness ==
    /\ uFetch[1] = "fulfilled"
    /\ uState[1].status = "success"
    /\ uFetch[2] = "rejected"
    /\ uState[2].status = "error"
    /\ uState[2].error = JSNull
    /\ aState.status = "error"

---------------------------------------------------------------------------
(* The backend request path.                                               *)

\* C22: execute returns the user the repository found for the id and throws
\* 'User not found' when the repository returned null, never returning null;
\* getUser sends exactly one response per request, the user as JSON when
\* execute succeeded and status 500 with the error message when it threw.
OneResponsePerRequest ==
    \A i \in 1..Len(bReqs) :
        LET r == bReqs[i] IN
        r.phase = "done" =>
            /\ (r.found.kind = "fulfilled" /\ r.found.value # JSNull) =>
                   /\ r.result = Fulfilled(r.found.value)
                   /\ r.result.value.props.id = JSStr(r.id)
            /\ r.found = Fulfilled(JSNull) =>
                   /\ r.result.kind = "rejected"
                   /\ IsError(r.result.value)
                   /\ Get(r.result.value, "message") = JSStr("User not found")
            /\ r.result # Fulfilled(JSNull)
            /\ Len(r.responses) = 1
            /\ r.result.kind = "fulfilled" =>
                   r.responses[1] = [status |-> 200, body |-> stringify(r.result.value)]
            /\ r.result.kind = "rejected" =>
                   /\ r.responses[1].status = 500
                   /\ HasProp(r.responses[1].body, "error")
                   /\ r.responses[1].body.props.error = Get(r.result.value, "message")

=============================================================================
